---- MODULE Spec2Model ----
(***************************************************************************)
(* Model of the security-paper search server: the conference registry,     *)
(* the venue matcher, the query builder, the search orchestrator           *)
(* (paperSearch) and the four tool handlers of index.ts.                   *)
(*                                                                         *)
(* JavaScript values: a string is a TLA+ string; an optional value is a    *)
(* tuple of length 0 (undefined / absent) or 1; a number that may be NaN   *)
(* is a tuple of length 1, or the empty tuple for NaN.                     *)
(***************************************************************************)
EXTENDS Integers, Sequences, FiniteSets, TLC

VARIABLES
    conferences,   \* the module-level registry object (conferences.json)
    currentYear,   \* what new Date().getFullYear() returns
    pc,            \* "idle" | "fetching" (awaiting the upstream) | "done"
    call,          \* the invocation in progress: entry point and arguments
    options,       \* the SearchOptions handed to searchPapers
    request,       \* the upstream request issued: query string and max hits
    fetches,       \* upstream requests issued by this invocation
    upstream,      \* the upstream's answer: "none", "ok" or the failure
    hits,          \* the hit list the upstream answered with
    outcome,       \* what the invocation produced
    prev           \* the query and the papers of the call being repeated

vars == <<conferences, currentYear, pc, call, options, request, fetches,
          upstream, hits, outcome, prev>>

None == <<>>
Some(x) == <<x>>
NaN == <<>>

-----------------------------------------------------------------------------
(* Strings *)

UpperChars == "ABCDEFGHIJKLMNOPQRSTUVWXYZ"
LowerChars == "abcdefghijklmnopqrstuvwxyz"
DigitChars == "0123456789"

CharAt(s, i) == SubSeq(s, i, i)

IndexIn(alphabet, c) ==
    IF \E j \in 1..Len(alphabet) : CharAt(alphabet, j) = c
    THEN CHOOSE j \in 1..Len(alphabet) : CharAt(alphabet, j) = c
    ELSE 0

\* String.prototype.toLowerCase
RECURSIVE toLowerCase(_)
toLowerCase(s) ==
    IF Len(s) = 0 THEN ""
    ELSE LET c == CharAt(s, 1)
             j == IndexIn(UpperChars, c)
         IN  (IF j = 0 THEN c ELSE CharAt(LowerChars, j))
                \o toLowerCase(SubSeq(s, 2, Len(s)))

\* String.prototype.includes
includes(s, pat) ==
    \E i \in 0..(Len(s) - Len(pat)) : SubSeq(s, i + 1, i + Len(pat)) = pat

\* occurrences of pat in s
CountOf(s, pat) ==
    Cardinality({i \in 0..(Len(s) - Len(pat)) : SubSeq(s, i + 1, i + Len(pat)) = pat})

\* Array.prototype.join over a sequence of strings
RECURSIVE join(_, _)
join(parts, sep) ==
    IF Len(parts) = 0 THEN ""
    ELSE IF Len(parts) = 1 THEN parts[1]
    ELSE parts[1] \o sep \o join(Tail(parts), sep)

\* the value of the longest prefix of decimal digits of s, NaN if it is empty
RECURSIVE digitsValue(_, _, _)
digitsValue(s, acc, seen) ==
    IF Len(s) > 0 /\ IndexIn(DigitChars, CharAt(s, 1)) > 0
    THEN digitsValue(SubSeq(s, 2, Len(s)),
                     10 * acc + (IndexIn(DigitChars, CharAt(s, 1)) - 1), TRUE)
    ELSE IF seen THEN Some(acc) ELSE NaN

RECURSIVE trimStart(_)
trimStart(s) ==
    IF Len(s) > 0 /\ CharAt(s, 1) = " " THEN trimStart(SubSeq(s, 2, Len(s))) ELSE s

\* parseInt(text, 10) of an optional string: leading blanks are skipped, a
\* sign is read, then the digits; anything else (undefined included) is NaN
parseInt(text) ==
    IF text = None THEN NaN
    ELSE LET t == trimStart(text[1])
         IN  IF Len(t) > 0 /\ CharAt(t, 1) = "-"
             THEN LET v == digitsValue(SubSeq(t, 2, Len(t)), 0, FALSE)
                  IN  IF v = NaN THEN NaN ELSE Some(0 - v[1])
             ELSE IF Len(t) > 0 /\ CharAt(t, 1) = "+"
             THEN digitsValue(SubSeq(t, 2, Len(t)), 0, FALSE)
             ELSE digitsValue(t, 0, FALSE)

\* truthiness of an optional number (undefined, NaN and 0 are falsy) and of
\* an optional string (undefined and "" are falsy)
truthyNumber(n) == n # None /\ n[1] # 0
truthyString(s) == s # None /\ s[1] # ""

-----------------------------------------------------------------------------
(* The registry *)

Entry(k, n, s, t, d, u) ==
    [key |-> k, name |-> n, shortName |-> s, tier |-> t, dblpKey |-> d, urls |-> u]

UrlYears == {2023, 2024}

Registry ==
    [top_tier |-> <<
        Entry("sp", "IEEE Symposium on Security and Privacy", "S&P", "top",
              "conf/sp", UrlYears),
        Entry("usenix", "USENIX Security Symposium", "USENIX Security", "top",
              "conf/uss", UrlYears),
        Entry("ccs", "ACM Conference on Computer and Communications Security",
              "CCS", "top", "conf/ccs", UrlYears),
        Entry("ndss", "Network and Distributed System Security Symposium",
              "NDSS", "top", "conf/ndss", UrlYears) >>,
     second_tier |-> <<
        Entry("acsac", "Annual Computer Security Applications Conference",
              "ACSAC", "second", "conf/acsac", UrlYears),
        Entry("raid", "Research in Attacks, Intrusions and Defenses", "RAID",
              "second", "conf/raid", UrlYears),
        Entry("esorics", "European Symposium on Research in Computer Security",
              "ESORICS", "second", "conf/esorics", UrlYears) >>]

DBLP_VENUE_MAPPINGS(key) ==
    CASE key = "sp" -> <<"sp", "ieee symposium on security and privacy", "s&p", "oakland">>
      [] key = "usenix" -> <<"uss", "usenix security", "usenix security symposium">>
      [] key = "ccs" -> <<"ccs", "acm ccs", "computer and communications security">>
      [] key = "ndss" -> <<"ndss", "network and distributed system security">>
      [] key = "acsac" -> <<"acsac", "annual computer security applications">>
      [] key = "raid" -> <<"raid", "research in attacks", "intrusions and defenses">>
      [] key = "esorics" -> <<"esorics", "european symposium on research in computer security">>
      [] OTHER -> <<>>

\* the registry after a call of getAllConferences: the spread copies both
\* tiers into a fresh object and writes nothing back
registryAfterGetAll_assign(confs) ==
    [confs EXCEPT !.top_tier = confs.top_tier \o
        SelectSeq(confs.second_tier,
                  LAMBDA e : \A i \in 1..Len(confs.top_tier) : confs.top_tier[i].key # e.key)]

registryAfterGetAll(confs) == confs

\* the entries of { ...top_tier, ...second_tier }, in property order
getAllConferences(confs) == confs.top_tier \o confs.second_tier

getConferencesByTier(confs, tier) ==
    IF tier = "top" THEN confs.top_tier
    ELSE IF tier = "second" THEN confs.second_tier
    ELSE getAllConferences(confs)

\* Object.keys of a registry object
keysOf(entries) == [i \in 1..Len(entries) |-> entries[i].key]

\* lower-case property names every object inherits from Object.prototype
InheritedNames == {"constructor", "__proto__"}

\* all[key.toLowerCase()]: an entry, an inherited (truthy) object that has
\* none of an entry's fields, or undefined
getConferenceInfo(confs, key) ==
    LET all == getAllConferences(confs)
        k == toLowerCase(key)
        own == {i \in 1..Len(all) : all[i].key = k}
    IN  IF own # {}
        THEN [kind |-> "entry", conf |-> all[CHOOSE i \in own : \A j \in own : j <= i]]
        ELSE IF k \in InheritedNames THEN [kind |-> "inherited"]
        ELSE [kind |-> "undefined"]

\* conf.urls[year.toString()]
getConferenceWebsiteUrl(confs, key, year) ==
    LET info == getConferenceInfo(confs, key)
    IN  IF info.kind = "undefined" THEN None
        ELSE IF info.kind = "inherited" THEN None
        ELSE IF year # NaN /\ year[1] \in info.conf.urls
             THEN Some(<<info.conf.key, year[1]>>)
             ELSE None

-----------------------------------------------------------------------------
(* Query Builder and Venue Matcher *)

\* the conferences a request targets: the explicit list when it has a length,
\* else the keys of the tier (options.tier || 'all')
targetConferences_ignoreTier(confs, o) ==
    IF o.conferences # None /\ Len(o.conferences[1]) > 0
    THEN o.conferences[1]
    ELSE keysOf(getAllConferences(confs))

targetConferences(confs, o) ==
    IF o.conferences # None /\ Len(o.conferences[1]) > 0
    THEN o.conferences[1]
    ELSE keysOf(getConferencesByTier(confs, IF truthyString(o.tier) THEN o.tier[1] ELSE "all"))

\* conf?.dblpKey of each target, the falsy ones filtered out
RECURSIVE venueQueriesOf(_, _)
venueQueriesOf(confs, keys) ==
    IF Len(keys) = 0 THEN <<>>
    ELSE LET info == getConferenceInfo(confs, Head(keys))
             rest == venueQueriesOf(confs, Tail(keys))
         IN  IF info.kind = "entry" /\ info.conf.dblpKey # ""
             THEN <<info.conf.dblpKey>> \o rest
             ELSE rest

venueQueries(confs, o) == venueQueriesOf(confs, targetConferences(confs, o))

buildDblpQuery(confs, o) ==
    LET kw == IF truthyString(o.keyword) THEN <<o.keyword[1]>> ELSE <<>>
        au == IF truthyString(o.author) THEN <<"author:" \o o.author[1]>> ELSE <<>>
        vq == venueQueries(confs, o)
        vf == IF Len(vq) > 0
              THEN <<join([i \in 1..Len(vq) |-> "venue:" \o vq[i] \o ":"], "|")>>
              ELSE <<>>
    IN  join(kw \o au \o vf, " ")

\* one conference's tests, in the order of the loop body
entryMatches(venueLower, conf) ==
    \/ includes(venueLower, conf.dblpKey)
    \/ \E m \in 1..Len(DBLP_VENUE_MAPPINGS(conf.key)) :
          includes(venueLower, DBLP_VENUE_MAPPINGS(conf.key)[m])
    \/ includes(venueLower, conf.key)
    \/ includes(venueLower, toLowerCase(conf.shortName))

\* the first conference, in registry order, one of whose tests succeeds
matchConference(confs, venue) ==
    LET venueLower == toLowerCase(venue)
        all == getAllConferences(confs)
        found == {i \in 1..Len(all) : entryMatches(venueLower, all[i])}
    IN  IF found = {} THEN None
        ELSE Some(all[CHOOSE i \in found : \A j \in found : i <= j])

-----------------------------------------------------------------------------
(* Search Orchestrator: what searchPapers does with the decoded hits *)

\* the year filter of the loop: true when the hit is skipped
yearSkips(o, year) ==
    \/ truthyNumber(o.yearFrom) /\ year # NaN /\ year[1] < o.yearFrom[1]
    \/ truthyNumber(o.yearTo) /\ year # NaN /\ year[1] > o.yearTo[1]

\* Array.prototype.includes over the explicit list: strict equality
listIncludes(list, key) == \E i \in 1..Len(list) : list[i] = key

\* the allow-list filter of the loop: true when the hit is skipped
allowListSkips_unmatched(o, matched) ==
    /\ o.conferences # None /\ Len(o.conferences[1]) > 0
    /\ (matched = None \/ ~listIncludes(o.conferences[1], matched[1].key))

allowListSkips(o, matched) ==
    /\ o.conferences # None /\ Len(o.conferences[1]) > 0
    /\ matched # None
    /\ ~listIncludes(o.conferences[1], matched[1].key)

\* info.authors?.author, a single object or an array, to a list of names
authorsOf(a) ==
    IF a[1] = "absent" THEN <<>>
    ELSE IF a[1] = "many" THEN a[2]
    ELSE <<a[2]>>

\* a || b over optional strings
orElse(a, b) == IF truthyString(a) THEN a ELSE b

paperOf(confs, info, year, matched) ==
    [title |-> info.title,
     authors |-> authorsOf(info.authors),
     year |-> year,
     conference |-> IF matched # None
                    THEN orElse(Some(matched[1].shortName), info.venue)
                    ELSE info.venue,
     conferenceFull |-> IF matched # None
                        THEN orElse(Some(matched[1].name), info.venue)
                        ELSE info.venue,
     tier |-> IF matched # None /\ matched[1].tier # "" THEN matched[1].tier ELSE "second",
     url |-> orElse(info.ee, info.url),
     doi |-> info.doi,
     conferenceUrl |-> IF matched # None
                       THEN getConferenceWebsiteUrl(confs, matched[1].key, year)
                       ELSE None]

\* the venue text handed to the matcher: info.venue || ''
venueText(info) == IF truthyString(info.venue) THEN info.venue[1] ELSE ""

RECURSIVE papersOf(_, _, _)
papersOf(confs, o, hs) ==
    IF Len(hs) = 0 THEN <<>>
    ELSE LET info == Head(hs)
             year == parseInt(info.year)
             matched == matchConference(confs, venueText(info))
             rest == papersOf(confs, o, Tail(hs))
         IN  IF yearSkips(o, year) THEN rest
             ELSE IF allowListSkips(o, matched) THEN rest
             ELSE <<paperOf(confs, info, year, matched)>> \o rest

-----------------------------------------------------------------------------
(* Inputs *)

MaxHits == 1

Hit(t, a, y, v, u, d, e) ==
    [title |-> t, authors |-> a, year |-> y, venue |-> v, url |-> u, doi |-> d, ee |-> e]

\* hit.info records as the upstream returns them
HitInfos ==
    { Hit("Paper A", <<"many", <<"Ann", "Bob">>>>, Some("2024"),
          Some("IEEE Symposium on Security and Privacy (SP)"),
          Some("https://dblp.org/rec/a"), Some("10.1/a"), Some("https://doi.org/10.1/a")),
      Hit("Paper B", <<"one", "Cy">>, Some("2023"), Some("CCS"),
          Some("https://dblp.org/rec/b"), None, None),
      Hit("Paper C", <<"absent">>, Some("2023"),
          Some("Proceedings of WORKSHOP-XYZ 2023"), None, None, None),
      Hit("Paper D", <<"one", "Di">>, Some("n.d."), Some("SP"), None, None, None),
      Hit("Paper E", <<"one", "Ed">>, Some("2024"), Some("conf/ccs (CODASPY)"),
          None, None, None),
      Hit("Paper F", <<"one", "Flo">>, None, None, None, None, None),
      Hit("Paper G", <<"one", "Gus">>, Some("2025"), Some("conf/uss"), None, None, None),
      Hit("Paper H", <<"one", "Hal">>, Some("2022"), Some("RAID"), None, None, None) }

RECURSIVE SeqsUpTo(_, _)
SeqsUpTo(S, n) ==
    IF n = 0 THEN {<<>>}
    ELSE LET shorter == SeqsUpTo(S, n - 1)
         IN  shorter \cup {Append(q, x) : q \in {r \in shorter : Len(r) = n - 1}, x \in S}

HitLists == SeqsUpTo(HitInfos, MaxHits)

Options(kw, au, yf, yt, cs, t, l) ==
    [keyword |-> kw, author |-> au, yearFrom |-> yf, yearTo |-> yt,
     conferences |-> cs, tier |-> t, limit |-> l]

NoOptions == Options(None, None, None, None, None, None, None)

Keywords == {None, Some("fuzzing")}
Authors == {None, Some("Smith")}
ConferenceLists ==
    {None, Some(<<>>), Some(<<"sp">>), Some(<<"SP">>), Some(<<"ccs", "raid">>),
     Some(<<"doesnotexist">>), Some(<<"constructor">>)}
Tiers == {None, Some("top"), Some("second")}

\* requests made of the core directly: those that vary what the query is
\* built from, and those that vary what the hits are filtered by
CoreOptions ==
    {Options(kw, au, None, None, cs, t, None) :
        kw \in Keywords, au \in Authors,
        cs \in {None, Some(<<>>), Some(<<"ccs", "raid">>), Some(<<"doesnotexist">>)},
        t \in Tiers}
    \cup
    {Options(None, None, yf, yt, cs, None, None) :
        yf \in {None, Some(2023)}, yt \in {None, Some(2024)}, cs \in ConferenceLists}

CoreKeys == {"sp", "SP", "ccs", "esorics", "doesnotexist", "constructor"}
CoreYears == {2023, 2024}

\* arguments a client hands to the tools
ToolYears == {None, Some(2019), Some(2024), Some(2026), Some(2027)}
ToolSearchArgs ==
    {Options(None, None, yf, yt, cs, None, l) :
        yf \in ToolYears, yt \in {None, Some(2027)},
        cs \in {None, Some(<<"ccs">>)}, l \in {None, Some(201)}}
ToolConferences == {"sp", "ccs", "SP", "doesnotexist"}
ToolStatsArgs == {<<kw, t>> : kw \in Keywords, t \in {None, Some("top")}}

-----------------------------------------------------------------------------
(* Listing and the adapter's input validation *)

FloorYear == 2020
SchemaMinYear == 2020
DefaultYearFrom == 2020
SchemaMaxYear == 2026
SchemaMinLimit == 1
SchemaMaxLimit == 200
DefaultLimit == 50
WideLimit == 200

\* the years 2020 .. current year + 1
getAvailableYears(now) == [i \in 1..(now + 1 - FloorYear + 1) |-> FloorYear + i - 1]

RECURSIVE sorted(_)
sorted(S) ==
    IF S = {} THEN <<>>
    ELSE LET m == CHOOSE x \in S : \A y \in S : x <= y
         IN  <<m>> \o sorted(S \ {m})

listAvailableConferences(confs) ==
    LET row(e) == [key |-> e.key, name |-> e.name, shortName |-> e.shortName,
                   years |-> sorted(e.urls)]
    IN  [topTier |-> [i \in 1..Len(confs.top_tier) |-> row(confs.top_tier[i])],
         secondTier |-> [i \in 1..Len(confs.second_tier) |-> row(confs.second_tier[i])]]

\* z.number().min(2020).max(2026).optional()
yearSchemaOk(y) == y = None \/ (y[1] >= SchemaMinYear /\ y[1] <= SchemaMaxYear)

\* z.number().min(1).max(200).optional()
limitSchemaOk(l) == l = None \/ (l[1] >= SchemaMinLimit /\ l[1] <= SchemaMaxLimit)

\* z.enum(['sp', 'usenix', 'ccs', 'ndss', 'acsac', 'raid', 'esorics'])
conferenceSchemaOk(c) == c \in {"sp", "usenix", "ccs", "ndss", "acsac", "raid", "esorics"}

\* the catch block of a tool handler: an error-flagged text response
toolCatch_rethrow(error) == [kind |-> "throw", error |-> error]

toolCatch(error) == [kind |-> "response", isError |-> TRUE, text |-> error]

\* the counts get_stats groups the papers into
countBy(ps, field) ==
    LET ks == {ps[i][field] : i \in 1..Len(ps)}
    IN  [k \in ks |-> Cardinality({i \in 1..Len(ps) : ps[i][field] = k})]

\* the success branch of a tool handler
toolRender(op, ps) ==
    IF op = "get_stats"
    THEN [kind |-> "response", isError |-> FALSE, papers |-> ps,
          byYear |-> countBy(ps, "year"), byConference |-> countBy(ps, "conference")]
    ELSE [kind |-> "response", isError |-> FALSE, papers |-> ps]

CoreOps == {"searchPapers", "searchByConference"}
ToolOps == {"search_papers", "get_conference_papers", "get_stats"}

-----------------------------------------------------------------------------
(* The state machine *)

Init ==
    /\ conferences = Registry
    /\ currentYear \in {2025, 2026}
    /\ pc = "idle"
    /\ call = [op |-> "none"]
    /\ options = NoOptions
    /\ request = [q |-> "", h |-> 0]
    /\ fetches = 0
    /\ upstream = "none"
    /\ hits = <<>>
    /\ outcome = [kind |-> "none"]
    /\ prev = None

\* a new invocation begins
BeginCall(c) ==
    /\ call' = c
    /\ upstream' = "none"
    /\ hits' = <<>>
    /\ UNCHANGED currentYear

\* searchPapers up to its await of fetch: the query is built and one request
\* is issued
IssueSearch(o) ==
    /\ options' = o
    /\ request' = [q |-> buildDblpQuery(conferences, o),
                   h |-> IF truthyNumber(o.limit) THEN o.limit[1] ELSE DefaultLimit]
    /\ fetches' = 1
    /\ pc' = "fetching"
    /\ outcome' = [kind |-> "pending"]
    /\ conferences' = registryAfterGetAll(conferences)

\* the invocation ends without reaching the upstream
EndEarly(result) ==
    /\ pc' = "done"
    /\ outcome' = result
    /\ fetches' = 0
    /\ UNCHANGED <<options, request>>

\* searchByConference: the registry lookup, then searchPapers
searchByConference(key, year) ==
    IF getConferenceInfo(conferences, key).kind = "undefined"
    THEN /\ EndEarly(IF call'.op \in ToolOps
                     THEN toolCatch("Unknown conference")
                     ELSE [kind |-> "throw", error |-> "Unknown conference"])
         /\ conferences' = registryAfterGetAll(conferences)
    ELSE IssueSearch(Options(None, None, Some(year), Some(year), Some(<<key>>),
                             None, Some(WideLimit)))

Core_searchPapers ==
    \E o \in CoreOptions :
        /\ pc = "idle"
        /\ BeginCall([op |-> "searchPapers", args |-> o])
        /\ prev' = None
        /\ IssueSearch(o)

\* the same request once more, against the same upstream dataset
Core_searchPapersAgain ==
    /\ pc = "done"
    /\ call.op = "searchPapers"
    /\ outcome.kind = "papers"
    /\ BeginCall(call)
    /\ prev' = Some([q |-> request.q, hits |-> hits, papers |-> outcome.papers])
    /\ IssueSearch(options)

Core_searchByConference ==
    \E key \in CoreKeys, year \in CoreYears :
        /\ pc = "idle"
        /\ BeginCall([op |-> "searchByConference", args |-> <<key, year>>])
        /\ prev' = None
        /\ searchByConference(key, year)

Tool_search_papers ==
    \E a \in ToolSearchArgs :
        /\ pc = "idle"
        /\ BeginCall([op |-> "search_papers", args |-> a])
        /\ prev' = None
        /\ IF yearSchemaOk(a.yearFrom) /\ yearSchemaOk(a.yearTo) /\ limitSchemaOk(a.limit)
           THEN IssueSearch(Options(
                    a.keyword, a.author,
                    IF truthyNumber(a.yearFrom) THEN a.yearFrom ELSE Some(DefaultYearFrom),
                    IF truthyNumber(a.yearTo) THEN a.yearTo ELSE Some(currentYear),
                    a.conferences,
                    IF truthyString(a.tier) THEN a.tier ELSE Some("all"),
                    IF truthyNumber(a.limit) THEN a.limit ELSE Some(DefaultLimit)))
           ELSE EndEarly([kind |-> "rejected"]) /\ UNCHANGED conferences

Tool_get_conference_papers ==
    \E c \in ToolConferences, y \in ToolYears \ {None} :
        /\ pc = "idle"
        /\ BeginCall([op |-> "get_conference_papers", args |-> <<c, y[1]>>])
        /\ prev' = None
        /\ IF conferenceSchemaOk(c) /\ yearSchemaOk(y)
           THEN searchByConference(c, y[1])
           ELSE EndEarly([kind |-> "rejected"]) /\ UNCHANGED conferences

Tool_get_stats ==
    \E a \in ToolStatsArgs :
        /\ pc = "idle"
        /\ BeginCall([op |-> "get_stats", args |-> a])
        /\ prev' = None
        /\ IssueSearch(Options(a[1], None, None, None, None,
                               IF truthyString(a[2]) THEN a[2] ELSE Some("all"),
                               Some(WideLimit)))

\* the listing: registry and clock only, no upstream request
Tool_list_conferences ==
    /\ pc = "idle"
    /\ BeginCall([op |-> "list_conferences"])
    /\ prev' = None
    /\ EndEarly([kind |-> "response", isError |-> FALSE,
                 listing |-> listAvailableConferences(conferences),
                 years |-> getAvailableYears(currentYear)])
    /\ UNCHANGED conferences

\* the invocation is over; its request, hits and result are discarded
Return ==
    /\ pc = "done"
    /\ pc' = "idle"
    /\ call' = [op |-> "none"]
    /\ options' = NoOptions
    /\ request' = [q |-> "", h |-> 0]
    /\ fetches' = 0
    /\ upstream' = "none"
    /\ hits' = <<>>
    /\ outcome' = [kind |-> "none"]
    /\ prev' = None
    /\ UNCHANGED <<conferences, currentYear>>

\* the upstream answers with a decodable body: the rest of searchPapers and
\* of the handler that awaits it
FetchOk ==
    /\ pc = "fetching"
    /\ \E h \in (IF prev = None THEN HitLists ELSE {prev[1].hits}) :
          /\ upstream' = "ok"
          /\ hits' = h
          /\ LET ps == papersOf(conferences, options, h)
             IN  outcome' = IF call.op \in ToolOps
                            THEN toolRender(call.op, ps)
                            ELSE [kind |-> "papers", papers |-> ps]
    /\ pc' = "done"
    /\ UNCHANGED <<conferences, currentYear, call, options, request, fetches, prev>>

UpstreamFailures == {"DBLP API error: 500", "fetch failed", "Unexpected token"}

\* a non-success status, a transport failure or an undecodable body: the
\* error is logged and rethrown by searchPapers
FetchFail ==
    /\ pc = "fetching"
    /\ \E e \in UpstreamFailures :
          /\ upstream' = e
          /\ outcome' = IF call.op \in ToolOps
                        THEN toolCatch(e)
                        ELSE [kind |-> "throw", error |-> e]
    /\ pc' = "done"
    /\ UNCHANGED <<conferences, currentYear, call, options, request, fetches,
                   hits, prev>>

Next ==
    \/ Core_searchPapers
    \/ Core_searchPapersAgain
    \/ Core_searchByConference
    \/ Tool_search_papers
    \/ Tool_get_conference_papers
    \/ Tool_get_stats
    \/ Tool_list_conferences
    \/ FetchOk
    \/ FetchFail
    \/ Return

Spec == Init /\ [][Next]_vars

-----------------------------------------------------------------------------
(* Properties *)

AllEntries == {getAllConferences(Registry)[n] : n \in 1..Len(getAllConferences(Registry))}
RegistryKeys == {c.key : c \in AllEntries}

HasPapers == pc = "done" /\ upstream = "ok"
ThePapers == outcome.papers
HasList == options.conferences # None /\ Len(options.conferences[1]) > 0

\* C1: whenever the lower-cased venue text of a hit contains the upstream
\* venue identifier of a registered conference, the Venue Matcher returns
\* that conference, whatever else the text contains.
C1_IdentifierWins ==
    HasPapers =>
        \A i \in 1..Len(hits) :
            \A c \in AllEntries :
                includes(toLowerCase(venueText(hits[i])), c.dblpKey)
                    => matchConference(conferences, venueText(hits[i])) = Some(c)

\* C2: when yearFrom and yearTo are both supplied, every returned Paper has
\* an integer year within [yearFrom, yearTo].
C2_YearInRange ==
    (HasPapers /\ options.yearFrom # None /\ options.yearTo # None) =>
        \A i \in 1..Len(ThePapers) :
            /\ ThePapers[i].year # NaN
            /\ options.yearFrom[1] <= ThePapers[i].year[1]
            /\ ThePapers[i].year[1] <= options.yearTo[1]

\* C3: every Paper that searchByConference(k, y) returns for a registered
\* key k carries the short name of k's entry and the year y.
C3_ExactConferenceAndYear ==
    (HasPapers /\ call.op \in {"searchByConference", "get_conference_papers"}
        /\ call.args[1] \in RegistryKeys) =>
        \A i \in 1..Len(ThePapers) :
            /\ ThePapers[i].conference =
                   Some(getConferenceInfo(conferences, call.args[1]).conf.shortName)
            /\ ThePapers[i].year = Some(call.args[2])

\* C4: searchByConference with a key that is not in the registry (compared
\* case-insensitively) issues no upstream request and fails with the
\* unknown-conference error.
C4_UnknownKeyFailsEarly ==
    (call.op = "searchByConference" /\ toLowerCase(call.args[1]) \notin RegistryKeys) =>
        /\ pc # "fetching"
        /\ fetches = 0
        /\ pc = "done" => (outcome.kind = "throw" /\ outcome.error = "Unknown conference")

\* C5: when the upstream request of an invocation fails, the core search
\* fails with that error, the invocation has issued exactly one upstream
\* request, and a tool handler ends with an error-flagged response, not a
\* throw.
C5_FailureReportedOnce ==
    (pc = "done" /\ upstream \in UpstreamFailures) =>
        /\ fetches = 1
        /\ call.op \in CoreOps => (outcome.kind = "throw" /\ outcome.error = upstream)
        /\ call.op \in ToolOps => (outcome.kind = "response" /\ outcome.isError)

C5_Witness ==
    /\ pc = "done" /\ upstream = "DBLP API error: 500"
    /\ call.op = "get_stats" /\ outcome.kind = "response" /\ outcome.isError

\* C6: with no explicit conference list, the issued query holds exactly one
\* venue qualifier per key of getConferencesByTier(tier || 'all'); when no
\* target resolves to a venue identifier the query holds no venue clause, only
\* the keyword and author parts.
C6_VenueClause ==
    fetches = 1 =>
        LET tierKeys == getConferencesByTier(conferences,
                            IF options.tier = None THEN "all" ELSE options.tier[1])
            resolved == {i \in 1..Len(options.conferences[1]) :
                            toLowerCase(options.conferences[1][i]) \in RegistryKeys}
        IN  /\ ~HasList =>
                /\ CountOf(request.q, "venue:") = Len(tierKeys)
                /\ \A i \in 1..Len(tierKeys) :
                      CountOf(request.q, "venue:" \o tierKeys[i].dblpKey \o ":") = 1
            /\ (HasList /\ resolved = {}) =>
                /\ ~includes(request.q, "venue:")
                /\ request.q =
                      IF options.keyword # None /\ options.author # None
                      THEN options.keyword[1] \o " author:" \o options.author[1]
                      ELSE IF options.keyword # None THEN options.keyword[1]
                      ELSE IF options.author # None THEN "author:" \o options.author[1]
                      ELSE ""

C6_Witness ==
    /\ pc = "fetching" /\ options.conferences = Some(<<>>)
    /\ options.tier = Some("second") /\ options.keyword # None
    /\ CountOf(request.q, "venue:") = 3

\* C7: with an explicit conference list, a hit that passes the year filter is
\* left out exactly when the Venue Matcher matched it to a conference whose
\* key is not in the list; an unmatched hit is returned with its raw venue
\* string as conference and tier "second".
C7_AllowList ==
    (HasPapers /\ HasList) =>
        LET matchOf(info) == matchConference(conferences, venueText(info))
            kept == SelectSeq(hits, LAMBDA info :
                        /\ ~yearSkips(options, parseInt(info.year))
                        /\ ~(/\ matchOf(info) # None
                             /\ matchOf(info)[1].key \notin
                                  {options.conferences[1][n] :
                                      n \in 1..Len(options.conferences[1])}))
        IN  /\ Len(ThePapers) = Len(kept)
            /\ \A i \in 1..Len(kept) :
                  /\ ThePapers[i].title = kept[i].title
                  /\ matchOf(kept[i]) = None =>
                        /\ ThePapers[i].conference = kept[i].venue
                        /\ ThePapers[i].tier = "second"

C7_Witness ==
    /\ HasPapers /\ options.conferences = Some(<<"sp">>)
    /\ Len(hits) > 0 /\ hits[1].venue = Some("Proceedings of WORKSHOP-XYZ 2023")
    /\ Len(ThePapers) > 0
    /\ ThePapers[1].conference = Some("Proceedings of WORKSHOP-XYZ 2023")

\* C8: the adapter accepts the years of a search_papers call (yearFrom,
\* yearTo) and of a get_conference_papers call (year) exactly when each lies
\* between 2020 and the current year + 1, the last year getAvailableYears
\* reports.
C8_CeilingTracksClock ==
    LET years == getAvailableYears(currentYear)
        inRange(y) == years[1] <= y /\ y <= years[Len(years)]
        accepted == outcome.kind # "rejected"
    IN  /\ (pc # "idle" /\ call.op = "get_conference_papers"
                /\ conferenceSchemaOk(call.args[1])) =>
              (accepted <=> inRange(call.args[2]))
        /\ (pc # "idle" /\ call.op = "search_papers" /\ limitSchemaOk(call.args.limit)) =>
              (accepted <=>
                  /\ call.args.yearFrom # None => inRange(call.args.yearFrom[1])
                  /\ call.args.yearTo # None => inRange(call.args.yearTo[1]))

\* C9: a searchPapers call repeated with the same request against the same
\* upstream dataset issues the same query and yields the same Paper list, and
\* no call changes the registry.
C9_Idempotent ==
    /\ conferences = Registry
    /\ (HasPapers /\ prev # None) =>
          /\ request.q = prev[1].q
          /\ ThePapers = prev[1].papers

C9_Witness ==
    /\ HasPapers /\ prev # None /\ Len(ThePapers) > 0
    /\ options.tier = Some("top")

\* C10: searchByConference with a registered key in another letter case
\* issues the query and returns the papers of the call with the key itself.
C10_CaseInsensitive ==
    (HasPapers /\ call.op = "searchByConference"
        /\ toLowerCase(call.args[1]) \in RegistryKeys) =>
        LET lower == [options EXCEPT !.conferences = Some(<<toLowerCase(call.args[1])>>)]
        IN  /\ request.q = buildDblpQuery(conferences, lower)
            /\ ThePapers = papersOf(conferences, lower, hits)

====
